---- MODULE Spec2Model ----
(***************************************************************************)
(* A model of setup_database.py: the bootstrap script that probes the      *)
(* store and the AI provider, creates six tables, seeds eight grants,      *)
(* reports, runs an AI smoke test and closes the connection.               *)
(*                                                                         *)
(* The script is straight-line code, so a run is a program counter walking *)
(* through it.  The store outlives a run: `tables` and `rows` are what is  *)
(* committed, `cur_tables` and `cur_rows` are what the script's connection *)
(* sees inside its open transaction (psycopg2 opens a transaction with the *)
(* first statement and keeps it until conn.commit(); a connection dropped  *)
(* without a commit loses it).  Runs follow one another on the same store. *)
(*                                                                         *)
(* The faults drawn are the four the design names: a failed probe, a       *)
(* rejected CREATE TABLE, a rejected seed INSERT and a failed smoke test.  *)
(***************************************************************************)
EXTENDS Integers, Sequences, FiniteSets

VARIABLES
    pc,               \* the statement the run is at
    k,                \* index of the next CREATE TABLE statement (1..6)
    idx,              \* index of the loop variable `grant` in sample_grants
    inserted_count,   \* line 262
    reported,         \* the number printed at line 282 (-1: nothing printed)
    grant_count,      \* line 286 (-1: not yet read)
    exit_code,        \* process exit status (-1: still running)
    conn,             \* "none" | "open" | "closed"   (conn, line 20 / 395)
    cursor,           \* "none" | "open" | "closed"   (cursor, line 21 / 394)
    tx,               \* "idle" | "open" | "aborted": the connection's transaction
    tables,           \* committed schema: table name -> definition or NoTable
    rows,             \* committed rows of grants
    cur_tables,       \* schema as the connection sees it
    cur_rows,         \* rows of grants as the connection sees them
    info_file,        \* grant count written to connection_info.txt (-1: no file)
    run,              \* number of the current invocation
    events,           \* calls made so far by this run, in order
    start_tables,     \* committed schema when this run started
    rows_before_seed, \* committed rows when this run entered the seed loop
    rejected,         \* seed records whose INSERT the store itself rejected
    created,          \* tables this run's statements created
    created_prev,     \* tables the previous run created
    failure,          \* why the run died ("none" while it has not)
    smoke_failed      \* the smoke test raised (line 362)

vars == <<pc, k, idx, inserted_count, reported, grant_count, exit_code, conn,
          cursor, tx, tables, rows, cur_tables, cur_rows, info_file, run,
          events, start_tables, rows_before_seed, rejected, created,
          created_prev, failure, smoke_failed>>

(***************************************************************************)
(* Bounds                                                                  *)
(***************************************************************************)
MaxRuns == 2

(***************************************************************************)
(* The schema (lines 59-155)                                               *)
(***************************************************************************)
\* variant: applications is created before grants
TableOrder_appFirst ==
    <<"applications", "grants", "analysis_history",
      "users", "predictions", "subscriptions">>

TableOrder ==
    <<"grants", "applications", "analysis_history",
      "users", "predictions", "subscriptions">>

TableNames ==
    {"grants", "applications", "analysis_history",
     "users", "predictions", "subscriptions"}

NumTables == Len(TableOrder)

\* REFERENCES clauses
Refs(t) ==
    CASE t = "applications"     -> {"grants"}
      [] t = "analysis_history" -> {"applications"}
      [] t = "predictions"      -> {"users"}
      [] t = "subscriptions"    -> {"users"}
      [] OTHER                  -> {}

\* PRIMARY KEY and UNIQUE columns
UniqueCols(t) ==
    CASE t = "users"         -> {"id", "email", "google_id"}
      [] t = "subscriptions" -> {"id", "stripe_subscription_id"}
      [] OTHER               -> {"id"}

TableDef(t) == [refs |-> Refs(t), unique |-> UniqueCols(t)]

NoTable == [refs |-> {}, unique |-> {}]

Existing(schema) == {t \in TableNames : schema[t] # NoTable}

\* variant: plain CREATE TABLE
IfNotExists_dropped == FALSE

\* every statement reads CREATE TABLE IF NOT EXISTS
IfNotExists == TRUE

\* variant: every statement is committed as it is executed
Autocommit_on == TRUE

\* psycopg2.connect() without autocommit: statements run in a transaction
Autocommit == FALSE

(***************************************************************************)
(* The reference catalog (lines 163-260): titles and agencies              *)
(***************************************************************************)
sample_grants ==
    << [title |-> "Environmental Innovation Grant 2024", agency |-> "EPA"],
       [title |-> "Small Business Innovation Research (SBIR) Phase I", agency |-> "NSF"],
       [title |-> "NIH Research Project Grant (R01)", agency |-> "NIH"],
       [title |-> "Education Innovation and Research Grant", agency |-> "Department of Education"],
       [title |-> "Community Development Block Grant", agency |-> "HUD"],
       [title |-> "Arts and Culture Grant Program", agency |-> "NEA"],
       [title |-> "Clean Energy Innovation Fund", agency |-> "DOE"],
       [title |-> "Rural Development Grant", agency |-> "USDA"] >>

NumGrants == Len(sample_grants)

Titles == {sample_grants[i].title : i \in 1..NumGrants}

\* DEFAULT gen_random_uuid(): a value no other insert ever gets
GenRandomUuid(r, i) == (r - 1) * NumGrants + i

\* one call the script made: what, on what, and whether it returned normally
Ev(op, arg, ok) == [op |-> op, arg |-> arg, ok |-> ok]

(***************************************************************************)
(* The store's answer to one CREATE TABLE                                  *)
(***************************************************************************)
StoreCreate(t, schema, fault) ==
    IF fault THEN "rejected"
    ELSE IF schema[t] # NoTable
         THEN (IF IfNotExists THEN "skipped" ELSE "duplicate_table")
    ELSE IF ~(Refs(t) \subseteq Existing(schema)) THEN "undefined_table"
    ELSE "created"

\* INSERT ... ON CONFLICT DO NOTHING: a row conflicts when it repeats the
\* value of a unique column of the table
Conflicts(row, present, schema) ==
    \E r \in present : \E c \in schema["grants"].unique \cap DOMAIN row :
        r[c] = row[c]

(***************************************************************************)
(* Initial states: the store holds any subset of the six tables and no     *)
(* grant rows; run 1 is about to start.  A table found there has the       *)
(* script's definition when the tables it references are there too;        *)
(* otherwise somebody else made it, without the reference.                 *)
(***************************************************************************)
ForeignDef(t) == [refs |-> {}, unique |-> UniqueCols(t)]

InitSchema(S) ==
    [t \in TableNames |->
        IF t \notin S THEN NoTable
        ELSE IF Refs(t) \subseteq S THEN TableDef(t)
        ELSE ForeignDef(t)]

Init ==
    /\ \E S \in SUBSET TableNames : tables = InitSchema(S)
    /\ cur_tables = tables
    /\ start_tables = tables
    /\ rows = {}
    /\ cur_rows = {}
    /\ rows_before_seed = {}
    /\ pc = "probe_store"
    /\ k = 1
    /\ idx = 1
    /\ inserted_count = 0
    /\ reported = -1
    /\ grant_count = -1
    /\ exit_code = -1
    /\ conn = "none"
    /\ cursor = "none"
    /\ tx = "idle"
    /\ info_file = -1
    /\ run = 1
    /\ events = <<>>
    /\ rejected = {}
    /\ created = {}
    /\ created_prev = {}
    /\ failure = "none"
    /\ smoke_failed = FALSE

(***************************************************************************)
(* Helpers shared by the steps                                             *)
(***************************************************************************)
\* exit(1), or an exception nobody catches: the process ends with status 1
\* without committing or closing; the store discards the open transaction.
Die(why) ==
    /\ pc' = "exited"
    /\ exit_code' = 1
    /\ failure' = why
    /\ tx' = "idle"
    /\ cur_tables' = tables
    /\ cur_rows' = rows
    /\ UNCHANGED <<tables, rows>>

\* conn.commit(): an open transaction becomes durable, an aborted one is
\* rolled back (the store answers COMMIT with ROLLBACK and raises nothing).
Commit ==
    /\ tables' = (IF tx = "aborted" THEN tables ELSE cur_tables)
    /\ cur_tables' = tables'
    /\ rows' = (IF tx = "aborted" THEN rows ELSE cur_rows)
    /\ cur_rows' = rows'
    /\ tx' = "idle"

\* the transaction state after a statement that succeeded
Begun == IF Autocommit THEN "idle" ELSE "open"

StoreQuiet == UNCHANGED <<tx, tables, rows, cur_tables, cur_rows>>

(***************************************************************************)
(* 1. Store probe (lines 17-27)                                            *)
(***************************************************************************)
ProbeStore ==
    /\ pc = "probe_store"
    /\ \E outcome \in {"ok", "connect_failed", "query_failed"} :
          IF outcome = "ok"
          THEN /\ conn' = "open"
               /\ cursor' = "open"
               /\ events' = events \o <<Ev("connect", "", TRUE),
                                          Ev("select_version", "", TRUE)>>
               /\ tx' = Begun
               /\ pc' = "probe_ai"
               /\ UNCHANGED <<exit_code, failure, tables, rows, cur_tables, cur_rows>>
          ELSE /\ conn' = (IF outcome = "query_failed" THEN "open" ELSE "none")
               /\ cursor' = conn'
               /\ events' = (IF outcome = "query_failed"
                             THEN events \o <<Ev("connect", "", TRUE),
                                               Ev("select_version", "", FALSE)>>
                             ELSE Append(events, Ev("connect", "", FALSE)))
               /\ Die("store_probe")
    /\ UNCHANGED <<k, idx, inserted_count, reported, grant_count, info_file, run,
                   start_tables, rows_before_seed, rejected, created,
                   created_prev, smoke_failed>>

(***************************************************************************)
(* 2. AI provider probe (lines 29-54): the 1.0+ call, then the 0.x call    *)
(***************************************************************************)
ProbeAI ==
    /\ pc = "probe_ai"
    /\ \E ok \in BOOLEAN :
          /\ pc' = (IF ok THEN "ddl" ELSE "probe_ai_legacy")
          /\ events' = Append(events, Ev("ai_modern", "", ok))
    /\ StoreQuiet
    /\ UNCHANGED <<k, idx, inserted_count, reported, grant_count, exit_code, conn,
                   cursor, info_file, run, start_tables, rows_before_seed,
                   rejected, created, created_prev, failure, smoke_failed>>

\* variant: the failure is only reported, as the smoke test does
OnAIProbeFailure_warn ==
    /\ pc' = "ddl"
    /\ StoreQuiet
    /\ UNCHANGED <<exit_code, failure>>

\* lines 51-54: report and exit(1)
OnAIProbeFailure == Die("ai_probe")

ProbeAILegacy ==
    /\ pc = "probe_ai_legacy"
    /\ \E ok \in BOOLEAN :
          /\ events' = Append(events, Ev("ai_legacy", "", ok))
          /\ IF ok
             THEN /\ pc' = "ddl"
                  /\ StoreQuiet
                  /\ UNCHANGED <<exit_code, failure>>
             ELSE OnAIProbeFailure
    /\ UNCHANGED <<k, idx, inserted_count, reported, grant_count, conn, cursor,
                   info_file, run, start_tables, rows_before_seed, rejected,
                   created, created_prev, smoke_failed>>

(***************************************************************************)
(* 3. Table creation (lines 56-158)                                        *)
(***************************************************************************)
CreateTable ==
    /\ pc = "ddl"
    /\ \E fault \in BOOLEAN :
          LET t   == TableOrder[k]
              res == StoreCreate(t, cur_tables, fault)
          IN  /\ events' = Append(events, Ev("create", t, res \in {"created", "skipped"}))
              /\ IF res \in {"created", "skipped"}
                 THEN /\ cur_tables' = (IF res = "created"
                                        THEN [cur_tables EXCEPT ![t] = TableDef(t)]
                                        ELSE cur_tables)
                      /\ created' = (IF res = "created" THEN created \cup {t} ELSE created)
                      /\ tables' = (IF Autocommit THEN cur_tables' ELSE tables)
                      /\ tx' = Begun
                      /\ k' = (IF k < NumTables THEN k + 1 ELSE k)
                      /\ pc' = (IF k < NumTables THEN "ddl" ELSE "ddl_commit")
                      /\ UNCHANGED <<exit_code, failure, rows, cur_rows>>
                 ELSE /\ Die(res)
                      /\ UNCHANGED <<k, created>>
    /\ UNCHANGED <<idx, inserted_count, reported, grant_count, conn, cursor,
                   info_file, run, start_tables, rows_before_seed, rejected,
                   created_prev, smoke_failed>>

\* variant: the commit at line 157 is left out
CommitSchema_missing ==
    /\ pc = "ddl_commit"
    /\ StoreQuiet
    /\ events' = events
    /\ rows_before_seed' = rows
    /\ inserted_count' = 0
    /\ idx' = 1
    /\ pc' = "seed"
    /\ UNCHANGED <<k, reported, grant_count, exit_code, conn, cursor, info_file,
                   run, start_tables, rejected, created, created_prev, failure,
                   smoke_failed>>

\* lines 157-158, then line 262
CommitSchema ==
    /\ pc = "ddl_commit"
    /\ Commit
    /\ events' = Append(events, Ev("commit", "", TRUE))
    /\ rows_before_seed' = rows'
    /\ inserted_count' = 0
    /\ idx' = 1
    /\ pc' = "seed"
    /\ UNCHANGED <<k, reported, grant_count, exit_code, conn, cursor, info_file,
                   run, start_tables, rejected, created, created_prev, failure,
                   smoke_failed>>

(***************************************************************************)
(* 4. Seed loop (lines 262-282)                                            *)
(***************************************************************************)
\* One pass of the loop body: the INSERT of sample_grants[idx] inside its
\* try/except.  An INSERT raises when the store rejects it, and also when an
\* earlier statement of the same transaction failed (the transaction is
\* aborted and the store refuses every statement until it ends).
InsertGrant ==
    /\ pc = "seed"
    /\ \E fault \in BOOLEAN :
          LET grant == sample_grants[idx]
              row   == [id |-> GenRandomUuid(run, idx), title |-> grant.title]
              raised == tx = "aborted" \/ fault
          IN  /\ events' = Append(events, Ev("insert", grant.title, ~raised))
              /\ IF raised
                 THEN \* except Exception: print a warning, go on
                      /\ tx' = (IF Autocommit THEN "idle" ELSE "aborted")
                      /\ rejected' = (IF tx = "aborted" THEN rejected
                                      ELSE rejected \cup {idx})
                      /\ UNCHANGED <<cur_rows, rows, inserted_count>>
                 ELSE LET hit == Conflicts(row, cur_rows, cur_tables)
                      IN  /\ cur_rows' = (IF hit THEN cur_rows
                                          ELSE cur_rows \cup {row})
                          /\ rows' = (IF Autocommit THEN cur_rows' ELSE rows)
                          \* cursor.rowcount > 0
                          /\ inserted_count' = (IF hit THEN inserted_count
                                                ELSE inserted_count + 1)
                          /\ tx' = Begun
                          /\ UNCHANGED rejected
    /\ idx' = (IF idx < NumGrants THEN idx + 1 ELSE idx)
    /\ pc' = (IF idx < NumGrants THEN "seed" ELSE "seed_commit")
    /\ UNCHANGED <<k, reported, grant_count, exit_code, conn, cursor, tables,
                   cur_tables, info_file, run, start_tables, rows_before_seed,
                   created, created_prev, failure, smoke_failed>>

\* variant: the commit at line 281 is left out
CommitSeed_missing ==
    /\ pc = "seed_commit"
    /\ StoreQuiet
    /\ events' = events
    /\ reported' = inserted_count
    /\ pc' = "count"
    /\ UNCHANGED <<k, idx, inserted_count, grant_count, exit_code, conn, cursor,
                   info_file, run, start_tables, rows_before_seed, rejected,
                   created, created_prev, failure, smoke_failed>>

\* lines 281-282
CommitSeed ==
    /\ pc = "seed_commit"
    /\ Commit
    /\ events' = Append(events, Ev("commit", "", TRUE))
    /\ reported' = inserted_count
    /\ pc' = "count"
    /\ UNCHANGED <<k, idx, inserted_count, grant_count, exit_code, conn, cursor,
                   info_file, run, start_tables, rows_before_seed, rejected,
                   created, created_prev, failure, smoke_failed>>

(***************************************************************************)
(* 5. Status queries and the report file (lines 284-325)                   *)
(***************************************************************************)
StatusQueries ==
    /\ pc = "count"
    /\ events' = Append(events, Ev("count", "", tx # "aborted"))
    /\ IF tx = "aborted"
       THEN /\ Die("in_failed_transaction")
            /\ UNCHANGED grant_count
       ELSE /\ grant_count' = Cardinality(cur_rows)
            /\ tx' = Begun
            /\ pc' = "write_info"
            /\ UNCHANGED <<exit_code, failure, tables, rows, cur_tables, cur_rows>>
    /\ UNCHANGED <<k, idx, inserted_count, reported, conn, cursor, info_file, run,
                   start_tables, rows_before_seed, rejected, created,
                   created_prev, smoke_failed>>

WriteInfo ==
    /\ pc = "write_info"
    /\ info_file' = grant_count
    /\ pc' = "smoke"
    /\ StoreQuiet
    /\ UNCHANGED <<k, idx, inserted_count, reported, grant_count, exit_code, conn,
                   cursor, run, events, start_tables, rows_before_seed, rejected,
                   created, created_prev, failure, smoke_failed>>

(***************************************************************************)
(* 6. AI smoke test (lines 327-363)                                        *)
(***************************************************************************)
SmokeTest ==
    /\ pc = "smoke"
    /\ \E ok \in BOOLEAN :
          /\ pc' = (IF ok THEN "list" ELSE "smoke_legacy")
          /\ events' = Append(events, Ev("smoke_modern", "", ok))
    /\ StoreQuiet
    /\ UNCHANGED <<k, idx, inserted_count, reported, grant_count, exit_code, conn,
                   cursor, info_file, run, start_tables, rows_before_seed,
                   rejected, created, created_prev, failure, smoke_failed>>

\* lines 362-363: a warning, nothing else
OnSmokeFailure ==
    /\ pc' = "list"
    /\ StoreQuiet
    /\ UNCHANGED <<exit_code, failure>>

SmokeLegacy ==
    /\ pc = "smoke_legacy"
    /\ \E ok \in BOOLEAN :
          /\ smoke_failed' = ~ok
          /\ events' = Append(events, Ev("smoke_legacy", "", ok))
          /\ IF ok
             THEN /\ pc' = "list"
                  /\ StoreQuiet
                  /\ UNCHANGED <<exit_code, failure>>
             ELSE OnSmokeFailure
    /\ UNCHANGED <<k, idx, inserted_count, reported, grant_count, conn, cursor,
                   info_file, run, start_tables, rows_before_seed, rejected,
                   created, created_prev>>

(***************************************************************************)
(* 7. Grant listing and close (lines 365-395)                              *)
(***************************************************************************)
ListGrants ==
    /\ pc = "list"
    /\ events' = Append(events, Ev("select_top", "", tx # "aborted"))
    /\ IF tx = "aborted"
       THEN Die("in_failed_transaction")
       ELSE /\ tx' = Begun
            /\ pc' = "close"
            /\ UNCHANGED <<exit_code, failure, tables, rows, cur_tables, cur_rows>>
    /\ UNCHANGED <<k, idx, inserted_count, reported, grant_count, conn, cursor,
                   info_file, run, start_tables, rows_before_seed, rejected,
                   created, created_prev, smoke_failed>>

\* cursor.close(); conn.close(); the script ends: status 0
Close ==
    /\ pc = "close"
    /\ cursor' = "closed"
    /\ conn' = "closed"
    /\ events' = Append(events, Ev("close", "", TRUE))
    /\ tx' = "idle"
    /\ cur_tables' = tables
    /\ cur_rows' = rows
    /\ pc' = "exited"
    /\ exit_code' = 0
    /\ UNCHANGED <<k, idx, inserted_count, reported, grant_count, tables, rows,
                   info_file, run, start_tables, rows_before_seed, rejected,
                   created, created_prev, failure, smoke_failed>>

(***************************************************************************)
(* The next invocation of the script against the same store                *)
(***************************************************************************)
StartRun ==
    /\ pc = "exited"
    /\ run < MaxRuns
    /\ run' = run + 1
    /\ pc' = "probe_store"
    /\ k' = 1
    /\ idx' = 1
    /\ inserted_count' = 0
    /\ reported' = -1
    /\ grant_count' = -1
    /\ exit_code' = -1
    /\ conn' = "none"
    /\ cursor' = "none"
    /\ events' = <<>>
    /\ rejected' = {}
    /\ created' = {}
    /\ created_prev' = created
    /\ failure' = "none"
    /\ smoke_failed' = FALSE
    /\ start_tables' = tables
    /\ rows_before_seed' = rows
    /\ UNCHANGED <<tx, tables, rows, cur_tables, cur_rows, info_file>>

RunStep ==
    \/ ProbeStore
    \/ ProbeAI
    \/ ProbeAILegacy
    \/ CreateTable
    \/ CommitSchema
    \/ InsertGrant
    \/ CommitSeed
    \/ StatusQueries
    \/ WriteInfo
    \/ SmokeTest
    \/ SmokeLegacy
    \/ ListGrants
    \/ Close

Next == RunStep \/ StartRun

Spec == Init /\ [][Next]_vars

\* A started script keeps executing: its next statement is always taken.
FairSpec == Spec /\ WF_vars(RunStep)

(***************************************************************************)
(* Observations on a run, used by the properties below                     *)
(***************************************************************************)
\* how many of the first j calls were `op`
Count(op, j) == Cardinality({i \in 1..j : events[i].op = op})

Called(op) == \E j \in 1..Len(events) : events[j].op = op

Raised(op) == \E j \in 1..Len(events) : events[j].op = op /\ ~events[j].ok

\* the schema step of this run has committed
SchemaDone == Count("commit", Len(events)) >= 1

\* the seeding commit of this run has happened
SeedDone == reported # -1

ProbeFailed == Raised("connect") \/ Raised("select_version") \/ Raised("ai_legacy")

DdlFailed == Raised("create")

\* rows of grants this run added to the store
Added == rows \ rows_before_seed

OnePerTitle(R) ==
    /\ Cardinality(R) = NumGrants
    /\ \A t \in Titles : Cardinality({r \in R : r.title = t}) = 1

(***************************************************************************)
(* C1: seeding is idempotent on the title.  After the seeding commit of    *)
(* any run in which no insert was rejected, grants holds exactly one row   *)
(* per catalog title (8 rows, never 16), and a run that found the catalog  *)
(* already seeded adds no row.                                             *)
(***************************************************************************)
C1_SeedIdempotent ==
    (SeedDone /\ rejected = {}) =>
        /\ OnePerTitle(rows)
        /\ (OnePerTitle(rows_before_seed) => Added = {})

(***************************************************************************)
(* C2: the schema step is idempotent.  Whatever tables the store held when *)
(* the run started, no CREATE TABLE fails because its table exists, a      *)
(* table that existed keeps its definition, a completed schema step leaves *)
(* all six tables, and a run that starts with all six creates none.        *)
(***************************************************************************)
C2_SchemaIdempotent ==
    /\ failure # "duplicate_table"
    /\ \A t \in Existing(start_tables) :
          cur_tables[t] = start_tables[t] /\ tables[t] = start_tables[t]
    /\ SchemaDone => Existing(tables) = TableNames
    /\ SchemaDone => \A t \in created : tables[t] = TableDef(t)
    /\ Existing(start_tables) = TableNames =>
          created = {} /\ tables = start_tables /\ cur_tables = start_tables

\* a second run has finished its schema step after a first run created tables
C2_Witness ==
    /\ run = 2
    /\ \E t \in TableNames : tables[t] = ForeignDef(t) /\ Refs(t) # {}
    /\ SchemaDone
    /\ created_prev # {}
    /\ created = {}
    /\ Existing(tables) = TableNames

(***************************************************************************)
(* C3: a rejected seed insert is isolated.  After the seeding commit,      *)
(* every catalog record whose own insert the store did not reject has been *)
(* added to grants by this run.                                            *)
(***************************************************************************)
C3_FailureIsolation ==
    (SeedDone /\ rejected # {}) =>
        \A i \in (1..NumGrants) \ rejected :
            \E r \in Added : r.title = sample_grants[i].title

(***************************************************************************)
(* C4: a failed probe is fatal before any mutation.  Once the store probe  *)
(* or the second AI call has failed, the run has exited with status 1, the *)
(* store holds the tables and rows it held when the run started, and the   *)
(* run has issued no CREATE TABLE and no INSERT.                           *)
(***************************************************************************)
C4_FatalOrdering ==
    ProbeFailed =>
        /\ pc = "exited"
        /\ exit_code = 1
        /\ tables = start_tables
        /\ cur_tables = start_tables
        /\ rows = rows_before_seed
        /\ created = {}
        /\ ~Called("create")
        /\ ~Called("insert")

\* both AI calls failed on a store that still lacked tables
C4_Witness ==
    /\ Raised("ai_modern")
    /\ Raised("ai_legacy")
    /\ Existing(start_tables) # TableNames
    /\ pc = "exited"

(***************************************************************************)
(* C5 as stated: when a CREATE TABLE is rejected, no seed insert is        *)
(* attempted and the tables the earlier statements of the run created      *)
(* remain in the store.                                                    *)
(***************************************************************************)
C5_PartialSchemaKept ==
    DdlFailed =>
        /\ ~Called("insert")
        /\ created \subseteq Existing(tables)

(***************************************************************************)
(* C5 amended: when a CREATE TABLE is rejected, the run exits with status  *)
(* 1, no seed insert is attempted, and the store holds exactly the tables  *)
(* it held when the run started: the tables created by the earlier         *)
(* statements were never committed and are gone.                           *)
(***************************************************************************)
C5_SchemaFailureAtomic ==
    DdlFailed =>
        /\ pc = "exited"
        /\ exit_code = 1
        /\ ~Called("insert")
        /\ ~Called("commit")
        /\ tables = start_tables
        /\ cur_tables = start_tables

\* a statement was rejected after earlier statements had created tables
C5_Witness ==
    /\ DdlFailed
    /\ failure = "rejected"
    /\ Cardinality(created) >= 2

(***************************************************************************)
(* C6: creation respects references.  A CREATE TABLE is only ever issued   *)
(* when the tables it references exist: they were in the store when the    *)
(* run started or an earlier statement of the run has created them.  No    *)
(* statement is refused for a missing referent.                            *)
(***************************************************************************)
C6_DependencyOrder ==
    /\ pc = "ddl" => Refs(TableOrder[k]) \subseteq Existing(cur_tables)
    /\ failure # "undefined_table"
    /\ \A j \in 1..Len(events) :
          events[j].op = "create" =>
              Refs(events[j].arg) \subseteq
                  Existing(start_tables) \cup
                  {events[i].arg : i \in {h \in 1..(j - 1) :
                        events[h].op = "create" /\ events[h].ok}}

\* one run created a referent and then the tables that reference it
C6_Witness ==
    /\ {"grants", "applications", "users", "predictions"} \subseteq created
    /\ pc = "ddl_commit"

(***************************************************************************)
(* C7: the printed count is the number of rows the run added.  After the   *)
(* seeding commit the number printed equals the growth of grants; it is 8  *)
(* for a clean first run on an empty table and 0 for a run on a seeded one.*)
(***************************************************************************)
C7_ReportedCount ==
    SeedDone =>
        /\ reported = Cardinality(rows) - Cardinality(rows_before_seed)
        /\ (rows_before_seed = {} /\ rejected = {}) => reported = NumGrants
        /\ OnePerTitle(rows_before_seed) => reported = 0

(***************************************************************************)
(* C8: once the schema step has committed, the run ends with status 0,     *)
(* whichever seed inserts are rejected and whether or not the smoke test   *)
(* fails.                                                                  *)
(***************************************************************************)
C8_ReachesDone ==
    \A r \in 1..(MaxRuns + 1) :
        (run = r /\ SchemaDone) ~> (run = r /\ pc = "exited" /\ exit_code = 0)

\* a run ended with status 0 after a rejected insert and a failed smoke test
C8_Witness ==
    /\ pc = "exited"
    /\ exit_code = 0
    /\ rejected # {}
    /\ smoke_failed

(***************************************************************************)
(* C9: the connection is released on every exit path.  A run that opened   *)
(* the connection and has ended has closed its cursor and its connection.  *)
(***************************************************************************)
C9_ConnectionReleased ==
    (pc = "exited" /\ conn # "none") => (conn = "closed" /\ cursor = "closed")

(***************************************************************************)
(* C10: the run goes probes, schema, seeding, end and never back.  Both    *)
(* probes have succeeded before the first CREATE TABLE; the CREATE TABLE   *)
(* statements come in schema order and nothing but probes precedes them;   *)
(* all six and their commit precede the first INSERT; the INSERTs come in  *)
(* catalog order, with nothing after the first of them but inserts until   *)
(* the loop is over; no CREATE TABLE follows a commit or an INSERT.        *)
(***************************************************************************)
C10_PhaseOrder ==
    \A j \in 1..Len(events) :
        /\ events[j].op = "create" =>
              /\ Count("create", j) <= NumTables
              /\ events[j].arg = TableOrder[Count("create", j)]
              /\ \E i \in 1..j : events[i].op = "select_version" /\ events[i].ok
              /\ \E i \in 1..j : events[i].op \in {"ai_modern", "ai_legacy"}
                                 /\ events[i].ok
              /\ \A i \in 1..j : events[i].op \in
                    {"connect", "select_version", "ai_modern", "ai_legacy", "create"}
        /\ events[j].op = "insert" =>
              /\ Count("insert", j) <= NumGrants
              /\ events[j].arg = sample_grants[Count("insert", j)].title
              /\ Count("create", j) = NumTables
              /\ ~Raised("create")
              /\ Count("commit", j) = 1
              /\ \A i \in 1..j : events[i].op \in
                    {"connect", "select_version", "ai_modern", "ai_legacy",
                     "create", "commit", "insert"}
              /\ Existing(tables) = TableNames
        /\ (events[j].op = "commit" /\ Count("commit", j) = 2) =>
              Count("insert", j) = NumGrants

\* a run on an empty store went through every phase
C10_Witness ==
    /\ pc = "exited"
    /\ exit_code = 0
    /\ created = TableNames
    /\ Count("insert", Len(events)) = NumGrants

====
